---- MODULE Spec2Model ----
(***************************************************************************)
(* LADEX browser client (src/static/app.js): the relay-chunk transfer      *)
(* engine of class LADEXApp.                                               *)
(*                                                                         *)
(*  - requester side: downloadFile, handleDownloadRequest,                 *)
(*    handleFileMetadata, handleFileChunk, assembleAndDownloadFile;        *)
(*  - host side: uploadFile, handleDownloadRequest, sendFileToRequester;   *)
(*  - the relay connection: connectWebSocket, joinSession, sendMessage;    *)
(*  - the catalog and presence: updateFileList, handlePeerJoined,          *)
(*    handlePeerLeft, handleTextMessage, handleMessageHistory.             *)
(*                                                                         *)
(* Strings that carry base64 are sequences of symbols: 0..63 are the       *)
(* alphabet, PadSym is '=', BadSym is a character outside the alphabet.    *)
(*                                                                         *)
(* The specifications share the state and the handlers:                    *)
(*   Spec           the requester's side under any file_metadata,          *)
(*                  file_chunk and download_request the relay may deliver; *)
(*   SpecSend       the host's side: uploads, requests, the steps of       *)
(*                  sendFileToRequester between its awaits;                *)
(*   SpecRoundTrip  a second peer hosting a file, the relay, and this peer *)
(*                  downloading it.                                        *)
(* and, recording the message each step handled:                           *)
(*   SpecRehost        the round trip, then a third peer asking this peer  *)
(*                     for the file;                                       *)
(*   SpecTwoDownloads  two downloads from one host, interleaved;           *)
(*   SpecPresence      download requests naming either peer as host,       *)
(*                     peer_joined and peer_left;                          *)
(*   SpecCatalog       file_list_update, text messages and reconnects;     *)
(*   SpecReconnect     the same with the reconnect timer firing;           *)
(*   SpecEnvelopes     one download under envelopes for this peer and for  *)
(*                     others, signaling messages and the cancel button;   *)
(*   SpecTwoHosts      two hosts sending the same file id to this peer;    *)
(*   SpecHosting       an upload, a download, and requests naming this     *)
(*                     peer as the host of either file.                    *)
(***************************************************************************)
EXTENDS Integers, Sequences, FiniteSets, TLC

\* ------------------------------------------------------------------ bounds

\* app.js:490 fixes chunkSize to 64 * 1024; the model scales it down.  Like
\* 64 * 1024 the value leaves remainder 1 when divided by 3, so that a full
\* chunk is base64-padded as in the program.
chunkSize == 4

\* the largest total_chunks a received file_metadata announces
MaxChunks == 3

\* how many chunks a session created with expectedChunks = 0 may count
MaxReceived == 2

\* how many sendFileToRequester calls the host side makes in one run
MaxSends == 1

\* how many text_message messages this.messages takes in one run
MaxMessages == 1

\* ------------------------------------------------------------- identities

Me == "peer_me"
Other == "peer_a"
Third == "peer_b"
FileIds == {"file_1", "file_2"}

\* ---------------------------------------------------------------- helpers

Min(a, b) == IF a < b THEN a ELSE b

\* ----------------------------------------------------------------- base64

PadSym == 64
BadSym == 65

\* btoa on one group of 1..3 bytes
EncodeGroup(g) ==
    LET b1 == g[1]
        b2 == IF Len(g) >= 2 THEN g[2] ELSE 0
        b3 == IF Len(g) >= 3 THEN g[3] ELSE 0
        n  == b1 * 65536 + b2 * 256 + b3
        s1 == n \div 262144
        s2 == (n \div 4096) % 64
        s3 == (n \div 64) % 64
        s4 == n % 64
    IN  IF Len(g) = 1 THEN <<s1, s2, PadSym, PadSym>>
        ELSE IF Len(g) = 2 THEN <<s1, s2, s3, PadSym>>
        ELSE <<s1, s2, s3, s4>>

RECURSIVE btoa(_)
btoa(bytes) ==
    IF Len(bytes) = 0 THEN <<>>
    ELSE LET k == Min(3, Len(bytes))
         IN  EncodeGroup(SubSeq(bytes, 1, k)) \o btoa(SubSeq(bytes, k + 1, Len(bytes)))

\* arrayBufferToBase64: bytes -> binary string -> btoa
arrayBufferToBase64(buffer) == btoa(buffer)

\* atob (forgiving-base64 decode): trailing padding of a string whose length
\* is a multiple of 4 is dropped; a length of 1 modulo 4 or a symbol outside
\* the alphabet throws; leftover bits are discarded.
StripPad(s) ==
    IF Len(s) > 0 /\ Len(s) % 4 = 0 /\ s[Len(s)] = PadSym
    THEN IF s[Len(s) - 1] = PadSym
         THEN SubSeq(s, 1, Len(s) - 2)
         ELSE SubSeq(s, 1, Len(s) - 1)
    ELSE s

DecodeGroup(g) ==
    LET v(i) == IF Len(g) >= i THEN g[i] ELSE 0
        n    == v(1) * 262144 + v(2) * 4096 + v(3) * 64 + v(4)
        b1   == n \div 65536
        b2   == (n \div 256) % 256
        b3   == n % 256
    IN  IF Len(g) = 2 THEN <<b1>>
        ELSE IF Len(g) = 3 THEN <<b1, b2>>
        ELSE <<b1, b2, b3>>

RECURSIVE DecodeSextets(_)
DecodeSextets(s) ==
    IF Len(s) = 0 THEN <<>>
    ELSE LET k == Min(4, Len(s))
         IN  DecodeGroup(SubSeq(s, 1, k)) \o DecodeSextets(SubSeq(s, k + 1, Len(s)))

atobThrows(s) ==
    LET t == StripPad(s)
    IN  \/ Len(t) % 4 = 1
        \/ \E i \in 1..Len(t) : t[i] \notin 0..63

atob(s) == DecodeSextets(StripPad(s))


\* ------------------------------------------------------------- JS values

\* a value that may or may not be a string: message.data, a slot of chunks
Str(s) == [str |-> TRUE, s |-> s]
Undefined == [str |-> FALSE, s |-> <<>>]

\* a test of message.data that lets every value through
TruthyWhatever(v) == TRUE

\* JS truthiness of such a value: undefined and '' are falsy
Truthy(v) == v.str /\ Len(v.s) > 0

\* Map.set and Map.delete on a map kept as a function on its keys
MapSet(m, k, v) == [x \in DOMAIN m \cup {k} |-> IF x = k THEN v ELSE m[x]]
MapDelete(m, k) == [x \in DOMAIN m \ {k} |-> m[x]]

\* new Array(n): every slot empty.  An array is kept as the function on its
\* filled slots.
EmptyChunks == <<>>

\* chunks[i]
Slot(chunks, i) == IF i \in DOMAIN chunks THEN chunks[i] ELSE Undefined

\* ------------------------------------------------------------------ state

VARIABLES
    wsState,            \* this.ws.readyState: "connecting", "open", "closed"
    files,              \* this.files: file id -> File
    pendingDownloads,   \* this.pendingDownloads
    activeDownloads,    \* this.activeDownloads: file id -> download
    lastError,          \* what the last step passed to showError, if anything
    sends,              \* the running sendFileToRequester calls
    announced,          \* file id -> file_downloaded messages sent since the
                        \* download of that id was last set up
    requestSent,        \* file ids a request_download was sent for
    sess,               \* history: the download session of each file id
    uploadSent          \* file ids a file_upload was sent for

\* another peer running the same client as the host of a file, and the relay
\* between that peer and this one
VARIABLES
    hostWs,             \* the host's connection: "open" or "closed"
    hostFiles,          \* the host's this.files
    hostSend,           \* the host's sendFileToRequester call
    toHost,             \* relay -> host: messages in flight
    channel             \* relay -> this peer: messages in flight

\* the connection's join messages and its reconnect timer
VARIABLES
    joinSent,           \* count: the join messages sent over the connection that
                        \* is open; id: the session_id of the last join sent
    reconnectTimer      \* the delay of onclose's pending timer, 0 when none

\* the catalog and the presence of the other peers
VARIABLES
    serverFiles,        \* this.serverFiles
    messages,           \* this.messages
    listed,             \* the rows of the files-list table body
    peers,              \* this.peers: session id -> peer
    peerStatus          \* the count the peer-status element shows

\* the maps the constructor makes for peer connections and outgoing transfers
VARIABLES
    rtcConnections,     \* this.rtcConnections: peer id -> connection
    activeTransfers     \* this.activeTransfers

\* history, never read by the program
VARIABLES
    handled,            \* the message the last step gave to handleServerMessage
    atClose             \* this.serverFiles when the connection last closed

recvVars == <<files, pendingDownloads, activeDownloads, announced, requestSent, sess>>

connVars == <<wsState, joinSent, reconnectTimer>>

rtcVars == <<rtcConnections, activeTransfers>>

dirVars == <<serverFiles, messages, listed, peers, peerStatus, rtcVars>>

histVars == <<handled, atClose>>

hostVars == <<hostWs, hostFiles, hostSend, toHost, channel>>

vars == <<wsState, files, pendingDownloads, activeDownloads, lastError, sends,
          announced, requestSent, sess, uploadSent,
          hostWs, hostFiles, hostSend, toHost, channel,
          joinSent, reconnectTimer, serverFiles, messages, listed, peers,
          peerStatus, rtcConnections, activeTransfers, handled, atClose>>

NoError == [kind |-> "none", indexes |-> {}]

\* a step that does not call showError
Quiet == lastError' = NoError

\* a download that was never set up
NoDownload ==
    [chunks |-> <<>>, expectedChunks |-> 0, receivedChunks |-> 0, fileName |-> "",
     mimeType |-> "", fileSize |-> -1, fromPeer |-> ""]

\* The history of the download of one file id, kept beside the program's
\* state and never read by it.
\*   outcome    "none", "waiting" (set up by handleDownloadRequest), "active"
\*              (set up by handleFileMetadata), "completed" or "failed" (what
\*              assembleAndDownloadFile made of it)
\*   expected, fileSize   total_chunks and file_size of the file_metadata
\*   delivered  the chunk_index values of the file_chunk messages handled for
\*              the id since, with a non-empty string as data
\*   wellFormed every one of them was in [0, expected) and decodable
\*   assembled  the download assembleAndDownloadFile was called with
\*   stored     that call changed this.files
\*   reported   what that call passed to showError
NoSession ==
    [outcome |-> "none", expected |-> 0, fileSize |-> 0, delivered |-> {},
     wellFormed |-> TRUE, assembled |-> NoDownload, stored |-> FALSE,
     reported |-> NoError]

\* ------------------------------------------------- receiving (requester)

\* handleFileMetadata's activeDownloads.set(...)
NewDownload(message) ==
    [chunks         |-> EmptyChunks,
     expectedChunks |-> message.total_chunks,
     receivedChunks |-> 0,
     fileName       |-> message.file_name,
     mimeType       |-> message.mime_type,
     fileSize       |-> message.file_size,
     fromPeer       |-> message.from_session_id]

handleFileMetadata(message) ==
    IF message.target_session_id # Me
    THEN UNCHANGED recvVars /\ Quiet
    ELSE /\ activeDownloads' =
                MapSet(activeDownloads, message.file_id, NewDownload(message))
         /\ sess' = [sess EXCEPT ![message.file_id] =
                [NoSession EXCEPT !.outcome = "active",
                                  !.expected = message.total_chunks,
                                  !.fileSize = message.file_size]]
         /\ announced' = [announced EXCEPT ![message.file_id] = 0]
         /\ Quiet
         /\ UNCHANGED <<files, pendingDownloads, requestSent>>

\* the "Check for missing chunks" loop of assembleAndDownloadFile
MissingChunks(download) ==
    {i \in 0..(download.expectedChunks - 1) : ~Truthy(Slot(download.chunks, i))}

\* the chunks whose atob throws
UndecodableChunks(download) ==
    {i \in 0..(download.expectedChunks - 1) :
        atobThrows(Slot(download.chunks, i).s)}

\* allBytes: the decoded chunks, in index order
RECURSIVE AllBytes(_, _)
AllBytes(download, i) ==
    IF i >= download.expectedChunks THEN <<>>
    ELSE atob(Slot(download.chunks, i).s) \o AllBytes(download, i + 1)

\* the error assembleAndDownloadFile throws and catches, if any
AssembleError(download) ==
    IF MissingChunks(download) # {}
    THEN [kind |-> "missing", indexes |-> MissingChunks(download)]
    ELSE IF UndecodableChunks(download) # {}
    THEN [kind |-> "decode",
          indexes |-> {CHOOSE i \in UndecodableChunks(download) :
                          \A j \in UndecodableChunks(download) : i <= j}]
    ELSE NoError

\* new File([blob], download.fileName, {type: download.mimeType})
AssembledFile(download) ==
    [name |-> download.fileName, type |-> download.mimeType,
     bytes |-> AllBytes(download, 0)]

\* assembleAndDownloadFile with the inner catch swallowing the error of atob:
\* a chunk that does not decode is left out and the rest is delivered
RECURSIVE DecodableBytes(_, _)
DecodableBytes(download, i) ==
    IF i >= download.expectedChunks THEN <<>>
    ELSE (IF atobThrows(Slot(download.chunks, i).s) THEN <<>>
          ELSE atob(Slot(download.chunks, i).s))
         \o DecodableBytes(download, i + 1)

assembleSkippingBadChunks(fileId, download) ==
    /\ activeDownloads' = MapDelete(activeDownloads, fileId)
    /\ IF MissingChunks(download) = {}
       THEN /\ files' = MapSet(files, fileId,
                    [name |-> download.fileName, type |-> download.mimeType,
                     bytes |-> DecodableBytes(download, 0)])
            /\ announced' = [announced EXCEPT ![fileId] = @ + 1]
            /\ Quiet
       ELSE /\ lastError' = [kind |-> "missing", indexes |-> MissingChunks(download)]
            /\ UNCHANGED <<files, announced>>

\* assembleAndDownloadFile with a catch block that clears activeDownloads
\* instead of deleting the one download
assembleClearingAll(fileId, download) ==
    LET error == AssembleError(download) IN
    IF error.kind = "none"
    THEN /\ activeDownloads' = MapDelete(activeDownloads, fileId)
         /\ files' = MapSet(files, fileId, AssembledFile(download))
         /\ announced' = [announced EXCEPT ![fileId] = @ + 1]
         /\ Quiet
    ELSE /\ activeDownloads' = <<>>
         /\ lastError' = error
         /\ UNCHANGED <<files, announced>>

\* assembleAndDownloadFile without the activeDownloads.delete of its success
\* path: the download, with the chunk just stored, stays in the map
assembleKeepingDownload(fileId, download) ==
    LET error == AssembleError(download) IN
    IF error.kind = "none"
    THEN /\ activeDownloads' = MapSet(activeDownloads, fileId, download)
         /\ files' = MapSet(files, fileId, AssembledFile(download))
         /\ announced' = [announced EXCEPT ![fileId] = @ + 1]
         /\ Quiet
    ELSE /\ activeDownloads' = MapDelete(activeDownloads, fileId)
         /\ lastError' = error
         /\ UNCHANGED <<files, announced>>

\* assembleAndDownloadFile without its call of storeFile: the file is handed
\* to the browser and announced, and not kept
assembleWithoutStoring(fileId, download) ==
    LET error == AssembleError(download) IN
    /\ activeDownloads' = MapDelete(activeDownloads, fileId)
    /\ IF error.kind = "none"
       THEN /\ announced' = [announced EXCEPT ![fileId] = @ + 1]
            /\ Quiet
            /\ UNCHANGED files
       ELSE /\ lastError' = error
            /\ UNCHANGED <<files, announced>>

\* assembleAndDownloadFile(fileId, download); it has no await, so it runs to
\* its end inside the handler that calls it
assembleAndDownloadFile(fileId, download) ==
    LET error == AssembleError(download) IN
    /\ activeDownloads' = MapDelete(activeDownloads, fileId)
    /\ IF error.kind = "none"
       THEN /\ files' = MapSet(files, fileId, AssembledFile(download))
            /\ announced' = [announced EXCEPT ![fileId] = @ + 1]
            /\ Quiet
       ELSE /\ lastError' = error
            /\ UNCHANGED <<files, announced>>

\* the history of a session, after a chunk for it was handled
Delivered(s, message) ==
    [s EXCEPT !.delivered = @ \cup {message.chunk_index},
              !.wellFormed = @ /\ message.chunk_index < s.expected
                               /\ ~atobThrows(message.data.s)]

handleFileChunk(message) ==
    LET fileId == message.file_id IN
    IF message.target_session_id # Me
    THEN UNCHANGED recvVars /\ Quiet
    ELSE IF fileId \notin DOMAIN activeDownloads
    THEN /\ sess' = [sess EXCEPT ![fileId] =
                IF Truthy(message.data) THEN Delivered(@, message) ELSE @]
         /\ Quiet
         /\ UNCHANGED <<files, pendingDownloads, activeDownloads, announced,
                        requestSent>>
    ELSE IF ~Truthy(message.data)
    THEN UNCHANGED recvVars /\ Quiet
    ELSE LET old == activeDownloads[fileId]
             download ==
                [old EXCEPT !.chunks = MapSet(@, message.chunk_index, message.data),
                            !.receivedChunks = @ + 1]
         IN  IF download.receivedChunks = download.expectedChunks
             THEN /\ assembleAndDownloadFile(fileId, download)
                  /\ sess' = [sess EXCEPT ![fileId] =
                        [Delivered(@, message) EXCEPT
                            !.outcome = IF lastError'.kind = "none"
                                        THEN "completed" ELSE "failed",
                            !.assembled = download,
                            !.stored = (files' # files),
                            !.reported = lastError']]
                  /\ UNCHANGED <<pendingDownloads, requestSent>>
             ELSE /\ activeDownloads' = MapSet(activeDownloads, fileId, download)
                  /\ sess' = [sess EXCEPT ![fileId] = Delivered(@, message)]
                  /\ Quiet
                  /\ UNCHANGED <<files, pendingDownloads, announced, requestSent>>


\* ---------------------------------------------------- sending (host side)

\* Math.ceil(file.size / chunkSize)
TotalChunks(size) == (size + chunkSize - 1) \div chunkSize

MetadataMessage(self, requesterSessionId, fileId, file) ==
    [type              |-> "file_metadata",
     session_id        |-> self,
     file_id           |-> fileId,
     file_name         |-> file.name,
     file_size         |-> Len(file.bytes),
     mime_type         |-> file.type,
     total_chunks      |-> TotalChunks(Len(file.bytes)),
     target_session_id |-> requesterSessionId]

\* the loop body with start off by one
ChunkDataOffByOne(uint8Array, chunkIndex) ==
    LET start == chunkIndex * chunkSize + 1
        end   == Min(start + chunkSize, Len(uint8Array))
    IN  SubSeq(uint8Array, start + 1, end)

\* uint8Array.slice(start, end) of the loop body
ChunkData(uint8Array, chunkIndex) ==
    LET start == chunkIndex * chunkSize
        end   == Min(start + chunkSize, Len(uint8Array))
    IN  SubSeq(uint8Array, start + 1, end)

\* the chunk message with a chunk_index counted from 1
ChunkMessageOneBased(self, requesterSessionId, fileId, chunkIndex, totalChunks, uint8Array) ==
    [type              |-> "file_chunk",
     session_id        |-> self,
     file_id           |-> fileId,
     chunk_index       |-> chunkIndex + 1,
     total_chunks      |-> totalChunks,
     data              |-> Str(arrayBufferToBase64(ChunkData(uint8Array, chunkIndex))),
     target_session_id |-> requesterSessionId]

ChunkMessage(self, requesterSessionId, fileId, chunkIndex, totalChunks, uint8Array) ==
    [type              |-> "file_chunk",
     session_id        |-> self,
     file_id           |-> fileId,
     chunk_index       |-> chunkIndex,
     total_chunks      |-> totalChunks,
     data              |-> Str(arrayBufferToBase64(ChunkData(uint8Array, chunkIndex))),
     target_session_id |-> requesterSessionId]

\* sendMessage(message) from a send: the call is logged, and the message goes
\* on the connection only when the connection is open
sendMessage(log, message, open) == Append(log, [message |-> message, wire |-> open])

\* sendFileToRequester sending its announcement only after the file is read:
\* nothing is sent before the first await
StartSendWithoutMetadata(self, open, requesterSessionId, fileId, file) ==
    [pc          |-> "reading",
     self        |-> self,
     requester   |-> requesterSessionId,
     fileId      |-> fileId,
     file        |-> file,
     totalChunks |-> TotalChunks(Len(file.bytes)),
     chunkIndex  |-> 0,
     log         |-> <<>>]

\* sendFileToRequester up to its first await (fileToArrayBuffer)
StartSend(self, open, requesterSessionId, fileId, file) ==
    [pc          |-> "reading",
     self        |-> self,
     requester   |-> requesterSessionId,
     fileId      |-> fileId,
     file        |-> file,
     totalChunks |-> TotalChunks(Len(file.bytes)),
     chunkIndex  |-> 0,
     log         |-> sendMessage(<<>>,
                        MetadataMessage(self, requesterSessionId, fileId, file), open)]

\* the for loop entered with chunkIndex: one iteration up to its await of
\* the 10 ms timer, or the end of the function
SendLoop(send, chunkIndex, open) ==
    IF chunkIndex < send.totalChunks
    THEN [send EXCEPT
            !.pc = "pacing",
            !.chunkIndex = chunkIndex,
            !.log = sendMessage(@,
                        ChunkMessage(send.self, send.requester, send.fileId,
                                     chunkIndex, send.totalChunks, send.file.bytes),
                        open)]
    ELSE [send EXCEPT !.pc = "done", !.chunkIndex = chunkIndex]

\* fileToArrayBuffer resolved
ReadResolved(send, open) == SendLoop(send, 0, open)

\* the 10 ms timer fired
TimerFired(send, open) == SendLoop(send, send.chunkIndex + 1, open)

\* fileToArrayBuffer rejected: the catch block
ReadRejected(send) == [send EXCEPT !.pc = "failed"]


\* -------------------------------------------------------------- the inputs

FileNames == {"a.bin"}
MimeTypes == {"application/octet-stream"}

\* the bytes of a file of n bytes
Content(n, seed) == [i \in 1..n |-> (seed + 37 * i) % 256]

FileOf(n, seed) ==
    [name |-> "a.bin", type |-> "application/octet-stream", bytes |-> Content(n, seed)]

\* the sizes of the round trip: 0, 1, C - 1, C, C + 1, 10 C
RoundTripSizes ==
    {0, 1, chunkSize - 1, chunkSize, chunkSize + 1, 10 * chunkSize}

\* the files a user uploads
UploadSizes == {0, 1, chunkSize, chunkSize + 1, 2 * chunkSize}
UploadFiles == {FileOf(n, 200) : n \in UploadSizes}

\* message.data of a received file_chunk: not a string, '', the encoding of
\* one byte, and a string atob rejects
ChunkDataIn ==
    {Undefined, Str(<<>>), Str(btoa(<<7>>)), Str(<<BadSym, 0, 0, 0>>)}

MetadataSizesIn == {0, 2}

FileMetadataIn(ids) ==
    [type : {"file_metadata"}, from_session_id : {Other}, file_id : ids,
     file_name : FileNames, file_size : MetadataSizesIn, mime_type : MimeTypes,
     total_chunks : 0..MaxChunks, target_session_id : {Me, Third}]

FileChunkIn(ids) ==
    [type : {"file_chunk"}, from_session_id : {Other}, file_id : ids,
     chunk_index : 0..(MaxChunks - 1), total_chunks : {MaxChunks}, data : ChunkDataIn,
     target_session_id : {Me, Third}]

DownloadRequestIn(hosts, ids, requesters) ==
    [type : {"download_request"}, from_session_id : hosts, file_id : ids,
     requester_session_id : requesters]

\* -------------------------------------------------------------- the catalog

\* a value that may or may not be an array: message.files
Arr(a) == [arr |-> TRUE, a |-> a]
NoArr == [arr |-> FALSE, a |-> <<>>]

\* message.files || []
FilesOrEmpty(v) == IF v.arr THEN v.a ELSE <<>>

\* this.serverFiles if a file_list_update were added to what is there
MergedServerFiles(old, message) == old \o FilesOrEmpty(message.files)

\* this.serverFiles after a file_list_update
NewServerFiles(old, message) == FilesOrEmpty(message.files)

FileItem(file) == [type |-> "file", data |-> file, timestamp |-> file.uploaded_at]

MessageItem(message) ==
    [type |-> "message", data |-> message, timestamp |-> message.timestamp]

\* allItems.sort((a, b) => b.timestamp - a.timestamp): latest first, and the
\* sort is stable
InsertItem(sorted, x) ==
    LET k == Cardinality({i \in 1..Len(sorted) : sorted[i].timestamp >= x.timestamp})
    IN  SubSeq(sorted, 1, k) \o <<x>> \o SubSeq(sorted, k + 1, Len(sorted))

RECURSIVE SortItems(_)
SortItems(items) ==
    IF Len(items) = 0 THEN <<>>
    ELSE InsertItem(SortItems(SubSeq(items, 1, Len(items) - 1)), items[Len(items)])

NoFilesRow == [kind |-> "no-files", id |-> "", hosts |-> <<>>, action |-> ""]

\* the table row of an item: its host badges, and a Download button when it
\* has a host, 'No hosts' otherwise
ItemRow(item) ==
    IF item.type = "file"
    THEN [kind |-> "file", id |-> item.data.id, hosts |-> item.data.hosts,
          action |-> IF Len(item.data.hosts) > 0 THEN "download" ELSE "no-hosts"]
    ELSE [kind |-> "message", id |-> item.data.id, hosts |-> <<>>, action |-> "view"]

\* updateFileList(files): the rows it writes to the table body
updateFileList(fileList, messageList) ==
    LET allItems ==
            [i \in 1..Len(fileList) |-> FileItem(fileList[i])]
                \o [i \in 1..Len(messageList) |-> MessageItem(messageList[i])]
        sorted == SortItems(allItems)
    IN  IF Len(allItems) = 0 THEN <<NoFilesRow>>
        ELSE [i \in 1..Len(sorted) |-> ItemRow(sorted[i])]

\* case 'file_list_update' of handleServerMessage
handleFileListUpdate(message) ==
    /\ serverFiles' = NewServerFiles(serverFiles, message)
    /\ listed' = updateFileList(serverFiles', messages)
    /\ UNCHANGED <<messages, peers, peerStatus, rtcVars>>

handlePeerJoined(message) ==
    /\ peers' = MapSet(peers, message.peer.session_id, message.peer)
    /\ peerStatus' = message.total_peers
    /\ UNCHANGED <<serverFiles, messages, listed, rtcVars>>

handlePeerLeft(message) ==
    /\ peers' = MapDelete(peers, message.session_id)
    /\ peerStatus' = message.total_peers
    /\ UNCHANGED <<serverFiles, messages, listed, rtcVars>>

handleTextMessage(message) ==
    /\ messages' = Append(messages, message.message)
    /\ listed' = updateFileList(serverFiles, messages')
    /\ UNCHANGED <<serverFiles, peers, peerStatus, rtcVars>>

handleMessageHistory(message) ==
    /\ messages' = message.messages
    /\ listed' = updateFileList(serverFiles, messages')
    /\ UNCHANGED <<serverFiles, peers, peerStatus, rtcVars>>

\* the records of a file_list_update: an id, the hosts, the upload time
CatalogRecords == [id : FileIds, hosts : {<<>>, <<Other>>}, uploaded_at : {1, 2}]

\* the lists of records of the relay's catalog, which has one record per id
CatalogLists ==
    {<<>>} \cup {<<r>> : r \in CatalogRecords}
           \cup {<<p[1], p[2]>> :
                    p \in {x \in CatalogRecords \X CatalogRecords : x[1].id # x[2].id}}

FileListUpdateIn ==
    [type : {"file_list_update"}, files : {NoArr} \cup {Arr(l) : l \in CatalogLists}]

TextMessages == [id : {"msg_1"}, timestamp : {2}]

TextMessageIn == [type : {"text_message"}, message : TextMessages]

MessageHistoryIn ==
    [type : {"message_history"}, messages : {<<>>} \cup {<<m>> : m \in TextMessages}]

PeerJoinedIn ==
    [type : {"peer_joined"}, peer : [session_id : {Other}], total_peers : {2}]

PeerLeftIn ==
    [type : {"peer_left"}, session_id : {Other, Third}, total_peers : {1}]

\* ---------------------------------------------------------- the connection

\* the delay of onclose's setTimeout, in ms
ReconnectDelay == 3000

\* joinSession if it drew a new session id for every connection
joinSessionNewId(sent) ==
    [count |-> sent.count + 1, id |-> IF sent.id = "" THEN Me ELSE "peer_new"]

\* joinSession: one join message with this.sessionId, sent on the connection
\* that has just opened
joinSession(sent) == [count |-> sent.count + 1, id |-> Me]

\* ws.onopen: updateConnectionStatus, joinSession
onopen ==
    /\ wsState = "connecting"
    /\ wsState' = "open"
    /\ joinSent' = joinSession(joinSent)
    /\ Quiet
    /\ UNCHANGED <<reconnectTimer, recvVars, sends, uploadSent, dirVars>>

\* ws.onclose: the connection closed, or never opened
onclose ==
    /\ wsState \in {"connecting", "open"}
    /\ wsState' = "closed"
    /\ joinSent' = [joinSent EXCEPT !.count = 0]
    /\ reconnectTimer' = ReconnectDelay
    /\ Quiet
    /\ UNCHANGED <<recvVars, sends, uploadSent, dirVars>>

\* the 3 s timer of onclose: connectWebSocket
connectWebSocket ==
    /\ wsState = "closed"
    /\ reconnectTimer > 0
    /\ wsState' = "connecting"
    /\ reconnectTimer' = 0
    /\ Quiet
    /\ UNCHANGED <<joinSent, recvVars, sends, uploadSent, dirVars>>

\* ------------------------------------------------------- the user's actions

\* uploadFile without its call of storeFile: the file is announced, not kept
uploadWithoutStoring(fileId, file) ==
    /\ fileId \notin DOMAIN files \cup DOMAIN activeDownloads \cup pendingDownloads
    /\ sess[fileId].outcome = "none"
    /\ uploadSent' = IF wsState = "open" THEN uploadSent \cup {fileId} ELSE uploadSent
    /\ Quiet
    /\ UNCHANGED <<connVars, files, pendingDownloads, activeDownloads, sends,
                   announced, requestSent, sess, dirVars>>

uploadFile(fileId, file) ==
    /\ fileId \notin DOMAIN files \cup DOMAIN activeDownloads \cup pendingDownloads
    /\ sess[fileId].outcome = "none"
    /\ files' = MapSet(files, fileId, file)
    /\ uploadSent' = IF wsState = "open" THEN uploadSent \cup {fileId} ELSE uploadSent
    /\ Quiet
    /\ UNCHANGED <<connVars, pendingDownloads, activeDownloads, sends, announced,
                   requestSent, sess, dirVars>>

downloadFile(fileId) ==
    /\ pendingDownloads' = pendingDownloads \cup {fileId}
    /\ requestSent' = IF wsState = "open" THEN requestSent \cup {fileId} ELSE requestSent
    /\ Quiet
    /\ UNCHANGED <<connVars, files, activeDownloads, sends, announced, sess,
                   uploadSent, dirVars>>

\* ------------------------------------------------------ handleServerMessage

\* the download handleDownloadRequest sets up for a request of this peer
PendingDownload(message) ==
    [chunks         |-> EmptyChunks,
     expectedChunks |-> 0,
     receivedChunks |-> 0,
     fileName       |-> "",
     mimeType       |-> "",
     fileSize       |-> -1,
     fromPeer       |-> message.from_session_id]

\* handleDownloadRequest without its check of this.files.get(file_id): the
\* call of sendFileToRequester with no file throws and is reported
handleDownloadRequestUnchecked(message) ==
    LET fileId == message.file_id IN
    IF message.requester_session_id = Me /\ fileId \in pendingDownloads
    THEN /\ pendingDownloads' = pendingDownloads \ {fileId}
         /\ activeDownloads' = MapSet(activeDownloads, fileId, PendingDownload(message))
         /\ sess' = [sess EXCEPT ![fileId] = [NoSession EXCEPT !.outcome = "waiting"]]
         /\ announced' = [announced EXCEPT ![fileId] = 0]
         /\ Quiet
         /\ UNCHANGED <<files, sends, requestSent>>
    ELSE IF message.from_session_id = Me /\ fileId \in DOMAIN files
    THEN /\ sends' = Append(sends,
                StartSend(Me, wsState = "open", message.requester_session_id,
                          fileId, files[fileId]))
         /\ Quiet
         /\ UNCHANGED recvVars
    ELSE IF message.from_session_id = Me
    THEN /\ lastError' = [kind |-> "send", indexes |-> {}]
         /\ UNCHANGED <<recvVars, sends>>
    ELSE UNCHANGED <<recvVars, sends>> /\ Quiet

handleDownloadRequest(message) ==
    LET fileId == message.file_id IN
    IF message.requester_session_id = Me /\ fileId \in pendingDownloads
    THEN /\ pendingDownloads' = pendingDownloads \ {fileId}
         /\ activeDownloads' = MapSet(activeDownloads, fileId, PendingDownload(message))
         /\ sess' = [sess EXCEPT ![fileId] = [NoSession EXCEPT !.outcome = "waiting"]]
         /\ announced' = [announced EXCEPT ![fileId] = 0]
         /\ Quiet
         /\ UNCHANGED <<files, sends, requestSent>>
    ELSE IF message.from_session_id = Me /\ fileId \in DOMAIN files
    THEN /\ sends' = Append(sends,
                StartSend(Me, wsState = "open", message.requester_session_id,
                          fileId, files[fileId]))
         /\ Quiet
         /\ UNCHANGED recvVars
    ELSE UNCHANGED <<recvVars, sends>> /\ Quiet

\* handleDownloadRequest(message) would call sendFileToRequester
StartsSend(message) ==
    /\ ~(message.requester_session_id = Me /\ message.file_id \in pendingDownloads)
    /\ message.from_session_id = Me
    /\ message.file_id \in DOMAIN files

\* ws.onmessage: messages arrive on an open connection only.  The guards on
\* sends and on receivedChunks keep the run within MaxSends and MaxReceived.
handleServerMessage(message) ==
    /\ wsState = "open"
    /\ CASE message.type = "download_request" ->
                /\ StartsSend(message) => Len(sends) < MaxSends
                /\ handleDownloadRequest(message)
                /\ UNCHANGED dirVars
         [] message.type = "file_metadata" ->
                /\ handleFileMetadata(message)
                /\ UNCHANGED <<sends, dirVars>>
         [] message.type = "file_chunk" ->
                /\ message.file_id \in DOMAIN activeDownloads =>
                       LET download == activeDownloads[message.file_id]
                       IN  \/ download.receivedChunks < download.expectedChunks
                           \/ download.receivedChunks < MaxReceived
                /\ handleFileChunk(message)
                /\ UNCHANGED <<sends, dirVars>>
         [] message.type = "file_list_update" ->
                /\ handleFileListUpdate(message)
                /\ UNCHANGED <<recvVars, sends>> /\ Quiet
         [] message.type = "peer_joined" ->
                /\ handlePeerJoined(message)
                /\ UNCHANGED <<recvVars, sends>> /\ Quiet
         [] message.type = "peer_left" ->
                /\ handlePeerLeft(message)
                /\ UNCHANGED <<recvVars, sends>> /\ Quiet
         [] message.type = "text_message" ->
                /\ Len(messages) < MaxMessages
                /\ handleTextMessage(message)
                /\ UNCHANGED <<recvVars, sends>> /\ Quiet
         [] message.type = "message_history" ->
                /\ handleMessageHistory(message)
                /\ UNCHANGED <<recvVars, sends>> /\ Quiet
         [] OTHER -> UNCHANGED <<recvVars, sends, dirVars>> /\ Quiet
    /\ UNCHANGED <<connVars, uploadSent>>

\* ------------------------------------------------ sendFileToRequester steps

fileRead(i) ==
    /\ sends[i].pc = "reading"
    /\ sends' = [sends EXCEPT ![i] = ReadResolved(@, wsState = "open")]
    /\ Quiet
    /\ UNCHANGED <<connVars, recvVars, uploadSent, dirVars>>

fileReadError(i) ==
    /\ sends[i].pc = "reading"
    /\ sends' = [sends EXCEPT ![i] = ReadRejected(@)]
    /\ lastError' = [kind |-> "send", indexes |-> {}]
    /\ UNCHANGED <<connVars, recvVars, uploadSent, dirVars>>

pacingTimer(i) ==
    /\ sends[i].pc = "pacing"
    /\ sends' = [sends EXCEPT ![i] = TimerFired(@, wsState = "open")]
    /\ Quiet
    /\ UNCHANGED <<connVars, recvVars, uploadSent, dirVars>>

\* the click on the cancel-transfer button: the map of outgoing transfers is
\* emptied and the progress modal hidden; this.activeDownloads is not read
cancelActiveTransfer ==
    /\ activeTransfers' = <<>>
    /\ Quiet
    /\ UNCHANGED <<connVars, recvVars, sends, uploadSent, serverFiles, messages,
                   listed, peers, peerStatus, rtcConnections>>

\* ------------------------------------------------------------------- Init

\* no message was handled by the last step
NoMessage == [type |-> "none"]

\* the connection has not closed yet
NeverClosed == [closed |-> FALSE, files |-> <<>>]

\* a LADEXApp after its constructor: empty maps, the connection being made
InitApp ==
    /\ wsState = "connecting"
    /\ files = <<>>
    /\ pendingDownloads = {}
    /\ activeDownloads = <<>>
    /\ lastError = NoError
    /\ sends = <<>>
    /\ announced = [f \in FileIds |-> 0]
    /\ requestSent = {}
    /\ sess = [f \in FileIds |-> NoSession]
    /\ uploadSent = {}
    /\ joinSent = [count |-> 0, id |-> ""]
    /\ reconnectTimer = 0
    /\ serverFiles = <<>>
    /\ messages = <<>>
    /\ listed = <<>>
    /\ peers = <<>>
    /\ peerStatus = 0
    /\ rtcConnections = <<>>
    /\ activeTransfers = <<>>
    /\ handled = NoMessage
    /\ atClose = NeverClosed

IdleSend ==
    [pc |-> "idle", self |-> Other, requester |-> Me, fileId |-> "file_1",
     file |-> FileOf(0, 0), totalChunks |-> 0, chunkIndex |-> 0, log |-> <<>>]

NoHost ==
    /\ hostWs = "closed"
    /\ hostFiles = <<>>
    /\ hostSend = IdleSend
    /\ toHost = <<>>
    /\ channel = <<>>

Init == InitApp /\ NoHost

\* ------------------------------------------------ the requester's machine

Opened == onopen /\ UNCHANGED <<hostVars, histVars>>

Closed == onclose /\ UNCHANGED <<hostVars, histVars>>

Reconnect == connectWebSocket /\ UNCHANGED <<hostVars, histVars>>

RequestDownload == \E f \in {"file_1"} : downloadFile(f) /\ UNCHANGED <<hostVars, histVars>>

ReceiveDownloadRequest ==
    \E m \in DownloadRequestIn({Other}, {"file_1"}, {Me, Third}) :
        handleServerMessage(m) /\ UNCHANGED <<hostVars, histVars>>

ReceiveFileMetadata ==
    \E m \in FileMetadataIn({"file_1"}) : handleServerMessage(m) /\ UNCHANGED <<hostVars, histVars>>

ReceiveFileChunk ==
    \E m \in FileChunkIn({"file_1"}) : handleServerMessage(m) /\ UNCHANGED <<hostVars, histVars>>

Next ==
    \/ Opened
    \/ Closed
    \/ Reconnect
    \/ RequestDownload
    \/ ReceiveDownloadRequest
    \/ ReceiveFileMetadata
    \/ ReceiveFileChunk

Spec == Init /\ [][Next]_vars

\* ----------------------------------------------------- the host's machine

Upload ==
    \E f \in FileIds, file \in UploadFiles : uploadFile(f, file) /\ UNCHANGED <<hostVars, histVars>>

ReceiveHostRequest ==
    \E m \in DownloadRequestIn({Me, Other}, FileIds, {Other, Third}) :
        handleServerMessage(m) /\ UNCHANGED <<hostVars, histVars>>

FileRead == \E i \in 1..Len(sends) : fileRead(i) /\ UNCHANGED <<hostVars, histVars>>

FileReadError == \E i \in 1..Len(sends) : fileReadError(i) /\ UNCHANGED <<hostVars, histVars>>

PacingTimer == \E i \in 1..Len(sends) : pacingTimer(i) /\ UNCHANGED <<hostVars, histVars>>

NextSend ==
    \/ Opened
    \/ Closed
    \/ Reconnect
    \/ Upload
    \/ ReceiveHostRequest
    \/ FileRead
    \/ FileReadError
    \/ PacingTimer

SpecSend == Init /\ [][NextSend]_vars


\* ------------------------------------------------------- the round trip
\* Another peer hosts file_1 and runs sendFileToRequester; the relay carries
\* what it sends to this peer, in order; this peer requests the file and
\* assembles it.

RoundTripFile == "file_1"

\* the relay names the sender of what it forwards
RelayForward(message) ==
    [k \in DOMAIN message \cup {"from_session_id"} |->
        IF k = "from_session_id" THEN message.session_id ELSE message[k]]

\* the messages a step of a send put on the connection
RECURSIVE OnWire(_, _)
OnWire(log, from) ==
    IF from > Len(log) THEN <<>>
    ELSE (IF log[from].wire THEN <<RelayForward(log[from].message)>> ELSE <<>>)
         \o OnWire(log, from + 1)

\* the relay's download_request for a request_download of this peer
RoutedRequest(fileId) ==
    [type |-> "download_request", from_session_id |-> Other, file_id |-> fileId,
     requester_session_id |-> Me]

InitRoundTrip ==
    /\ InitApp
    /\ hostWs = "open"
    /\ \E n \in RoundTripSizes, seed \in {0, 200} :
            hostFiles = MapSet(<<>>, RoundTripFile, FileOf(n, seed))
    /\ hostSend = IdleSend
    /\ toHost = <<>>
    /\ channel = <<>>

\* this peer connects
Connect == onopen /\ UNCHANGED <<hostVars, histVars>>

\* the user clicks Download; the relay routes the request to the host and
\* tells this peer which host will send
Request ==
    /\ wsState = "open"
    /\ RoundTripFile \notin requestSent
    /\ downloadFile(RoundTripFile)
    /\ toHost' = Append(toHost, RoutedRequest(RoundTripFile))
    /\ channel' = Append(channel, RoutedRequest(RoundTripFile))
    /\ UNCHANGED <<hostWs, hostFiles, hostSend, histVars>>

\* this peer's ws.onmessage for the next message of the relay
Deliver ==
    /\ channel # <<>>
    /\ handleServerMessage(Head(channel))
    /\ channel' = Tail(channel)
    /\ UNCHANGED <<hostWs, hostFiles, hostSend, toHost, histVars>>

appVars == <<connVars, recvVars, sends, uploadSent, dirVars>>

\* the host's handleDownloadRequest: it is the host named and has the file
HostReceive ==
    /\ hostWs = "open"
    /\ toHost # <<>>
    /\ toHost' = Tail(toHost)
    /\ LET message == Head(toHost) IN
       IF /\ hostSend.pc = "idle"
          /\ message.from_session_id = Other
          /\ message.file_id \in DOMAIN hostFiles
       THEN LET send == StartSend(Other, TRUE, message.requester_session_id,
                                  message.file_id, hostFiles[message.file_id])
            IN  /\ hostSend' = send
                /\ channel' = channel \o OnWire(send.log, 1)
       ELSE UNCHANGED <<hostSend, channel>>
    /\ Quiet
    /\ UNCHANGED <<appVars, hostWs, hostFiles, histVars>>

HostFileRead ==
    /\ hostSend.pc = "reading"
    /\ LET send == ReadResolved(hostSend, hostWs = "open")
       IN  /\ hostSend' = send
           /\ channel' = channel \o OnWire(send.log, Len(hostSend.log) + 1)
    /\ Quiet
    /\ UNCHANGED <<appVars, hostWs, hostFiles, toHost, histVars>>

HostPacingTimer ==
    /\ hostSend.pc = "pacing"
    /\ LET send == TimerFired(hostSend, hostWs = "open")
       IN  /\ hostSend' = send
           /\ channel' = channel \o OnWire(send.log, Len(hostSend.log) + 1)
    /\ Quiet
    /\ UNCHANGED <<appVars, hostWs, hostFiles, toHost, histVars>>

\* the host's connection closes: what the relay had for it is lost
HostClose ==
    /\ hostWs = "open"
    /\ hostWs' = "closed"
    /\ toHost' = <<>>
    /\ Quiet
    /\ UNCHANGED <<appVars, hostFiles, hostSend, channel, histVars>>

\* the host's connectWebSocket and onopen
HostReconnect ==
    /\ hostWs = "closed"
    /\ hostWs' = "open"
    /\ Quiet
    /\ UNCHANGED <<appVars, hostFiles, hostSend, toHost, channel, histVars>>

NextRoundTrip ==
    \/ Connect
    \/ Request
    \/ Deliver
    \/ HostReceive
    \/ HostFileRead
    \/ HostPacingTimer
    \/ HostClose
    \/ HostReconnect

SpecRoundTrip == InitRoundTrip /\ [][NextRoundTrip]_vars

\* the round trip is over: the host's send returned and the relay is empty
RoundTripOver == hostSend.pc = "done" /\ channel = <<>>

\* every message of the host's send went on its connection
NothingDropped == \A i \in 1..Len(hostSend.log) : hostSend.log[i].wire


\* ------------------------------------------------- the message handled

\* a step that handles no message
NoMessageStep == handled' = NoMessage /\ UNCHANGED <<hostVars, atClose>>

\* ws.onmessage for message
Handle(message) ==
    /\ handleServerMessage(message)
    /\ handled' = message
    /\ UNCHANGED <<hostVars, atClose>>

Opens == onopen /\ NoMessageStep

Closes == onclose /\ NoMessageStep

Reconnects == connectWebSocket /\ NoMessageStep

\* --------------------------------------------- the requester as a host
\* The round trip, and after it a third peer asking for the file with this
\* peer named as its host.

ThirdPeerRequests ==
    /\ sess[RoundTripFile].outcome = "completed"
    /\ \E m \in DownloadRequestIn({Me}, {RoundTripFile}, {Third}) :
            /\ handleServerMessage(m)
            /\ handled' = m
            /\ UNCHANGED <<hostVars, atClose>>

NextRehost ==
    \/ Connect
    \/ Request
    \/ Deliver
    \/ HostReceive
    \/ HostFileRead
    \/ HostPacingTimer
    \/ HostClose
    \/ HostReconnect
    \/ ThirdPeerRequests
    \/ FileRead
    \/ FileReadError
    \/ PacingTimer

SpecRehost == InitRoundTrip /\ [][NextRehost]_vars

\* ------------------------------------------------------- two downloads
\* The same host sends file_1 and file_2 to this peer; the relay delivers
\* their announcements and chunks in any order.

\* message.data of the chunks the host sends for each file: the files have
\* no byte in common, and a chunk of file_1 may be damaged on the way
TwoDownloadsData(fileId) ==
    IF fileId = "file_1"
    THEN {Str(btoa(<<7>>)), Str(<<BadSym, 0, 0, 0>>)}
    ELSE {Str(btoa(<<8, 9>>))}

TwoDownloadsMetadataIn ==
    {m \in FileMetadataIn(FileIds) :
        /\ m.total_chunks \in {1, 2}
        /\ m.file_size = 2
        /\ m.target_session_id = Me}

TwoDownloadsChunkIn ==
    {m \in [type : {"file_chunk"}, from_session_id : {Other}, file_id : FileIds,
            chunk_index : {0, 1}, total_chunks : {2},
            data : UNION {TwoDownloadsData(f) : f \in FileIds},
            target_session_id : {Me}] :
        m.data \in TwoDownloadsData(m.file_id)}

EitherMetadataArrives == \E m \in TwoDownloadsMetadataIn : Handle(m)

EitherChunkArrives == \E m \in TwoDownloadsChunkIn : Handle(m)

NextTwoDownloads ==
    \/ Opens
    \/ EitherMetadataArrives
    \/ EitherChunkArrives

SpecTwoDownloads == Init /\ [][NextTwoDownloads]_vars

\* ------------------------------------------------ requests and presence
\* This peer hosts file_1 once it is uploaded and asks for file_2; the relay
\* delivers download requests that name either peer as host, the
\* announcement of file_2, and the arrivals and departures of the others.

UploadsFile == uploadFile("file_1", FileOf(1, 200)) /\ NoMessageStep

RequestsFile == downloadFile("file_2") /\ NoMessageStep

DownloadRequestArrives ==
    \E m \in DownloadRequestIn({Me, Other}, FileIds, {Me, Third}) : Handle(m)

AnnouncementArrives ==
    \E m \in {x \in FileMetadataIn({"file_2"}) :
                  x.total_chunks = 1 /\ x.target_session_id = Me} : Handle(m)

PeerJoins == \E m \in PeerJoinedIn : Handle(m)

PeerLeaves == \E m \in PeerLeftIn : Handle(m)

ReadsFile == \E i \in 1..Len(sends) : fileRead(i) /\ NoMessageStep

ReadFails == \E i \in 1..Len(sends) : fileReadError(i) /\ NoMessageStep

PacingFires == \E i \in 1..Len(sends) : pacingTimer(i) /\ NoMessageStep

NextPresence ==
    \/ Opens
    \/ Closes
    \/ Reconnects
    \/ UploadsFile
    \/ RequestsFile
    \/ DownloadRequestArrives
    \/ AnnouncementArrives
    \/ PeerJoins
    \/ PeerLeaves
    \/ ReadsFile
    \/ ReadFails
    \/ PacingFires

SpecPresence == Init /\ [][NextPresence]_vars

\* ------------------------------------------- the catalog over reconnects
\* The relay sends the catalog, text messages and the message history; the
\* connection closes and is made again.

CatalogCloses ==
    /\ onclose
    /\ handled' = NoMessage
    /\ atClose' = [closed |-> TRUE, files |-> serverFiles]
    /\ UNCHANGED hostVars

FileListArrives == \E m \in FileListUpdateIn : Handle(m)

TextMessageArrives == \E m \in TextMessageIn : Handle(m)

MessageHistoryArrives == \E m \in MessageHistoryIn : Handle(m)

NextCatalog ==
    \/ Opens
    \/ CatalogCloses
    \/ Reconnects
    \/ FileListArrives
    \/ TextMessageArrives
    \/ MessageHistoryArrives

SpecCatalog == Init /\ [][NextCatalog]_vars

\* the timer onclose sets does fire
SpecReconnect == Init /\ [][NextCatalog]_vars /\ WF_vars(Reconnects)

\* ------------------------------------------------------------ the envelopes
\* One download under every envelope the relay can deliver for it: addressed
\* to this peer or to another, with or without data, signaling messages that
\* handleServerMessage has no case for, and the user cancelling.

EnvelopeFile == "file_1"

\* the signaling messages peers exchange through the relay
SignalIn ==
    [type : {"offer", "answer", "ice_candidate"}, file_id : {EnvelopeFile},
     from_session_id : {Other}, target_session_id : {Me}]

\* the click on the cancel-transfer button
CancelClick == [type |-> "cancel-transfer"]

EnvelopeMetadataIn ==
    {x \in FileMetadataIn({EnvelopeFile}) :
        x.total_chunks \in {1, 2} /\ x.file_size = 2}

EnvelopeChunkIn == {x \in FileChunkIn({EnvelopeFile}) : x.chunk_index < 2}

RequestsEnvelopeFile == downloadFile(EnvelopeFile) /\ NoMessageStep

RequestAnswered ==
    \E m \in DownloadRequestIn({Other}, {EnvelopeFile}, {Me}) : Handle(m)

MetadataArrives == \E m \in EnvelopeMetadataIn : Handle(m)

ChunkArrives == \E m \in EnvelopeChunkIn : Handle(m)

SignalArrives == \E m \in SignalIn : Handle(m)

CancelsTransfer ==
    /\ cancelActiveTransfer
    /\ handled' = CancelClick
    /\ UNCHANGED <<hostVars, atClose>>

NextEnvelopes ==
    \/ Opens
    \/ RequestsEnvelopeFile
    \/ RequestAnswered
    \/ MetadataArrives
    \/ ChunkArrives
    \/ SignalArrives
    \/ CancelsTransfer

SpecEnvelopes == Init /\ [][NextEnvelopes]_vars

\* ------------------------------------------------------------- two hosts
\* Two peers host the same file id, and each sends it to this peer: the
\* relay delivers their file_metadata and file_chunk messages interleaved.

TwoHostsFile == "file_1"

TwoHosts == {Other, Third}

TwoHostsMetadataIn ==
    [type : {"file_metadata"}, from_session_id : TwoHosts, file_id : {TwoHostsFile},
     file_name : FileNames, file_size : {2}, mime_type : MimeTypes,
     total_chunks : {1, 2}, target_session_id : {Me}]

TwoHostsChunkIn ==
    [type : {"file_chunk"}, from_session_id : TwoHosts, file_id : {TwoHostsFile},
     chunk_index : {0, 1}, total_chunks : {2},
     data : {Str(btoa(<<7>>)), Str(btoa(<<8>>))}, target_session_id : {Me}]

HostMetadataArrives == \E m \in TwoHostsMetadataIn : Handle(m)

HostChunkArrives == \E m \in TwoHostsChunkIn : Handle(m)

NextTwoHosts ==
    \/ Opens
    \/ HostMetadataArrives
    \/ HostChunkArrives

SpecTwoHosts == Init /\ [][NextTwoHosts]_vars

\* ------------------------------------------------------- hosting files
\* This peer uploads file_1 and downloads file_2, over a connection that
\* opens and closes; the relay names it as the host in download requests
\* for either id.

DownloadedChunkArrives ==
    \E m \in {x \in FileChunkIn({"file_2"}) :
                  /\ x.chunk_index = 0
                  /\ x.data = Str(btoa(<<7>>))
                  /\ x.target_session_id = Me} : Handle(m)

HostRequestArrives ==
    \E m \in DownloadRequestIn({Me}, FileIds, {Me, Third}) : Handle(m)

NextHosting ==
    \/ Opens
    \/ Closes
    \/ Reconnects
    \/ UploadsFile
    \/ RequestsFile
    \/ AnnouncementArrives
    \/ DownloadedChunkArrives
    \/ HostRequestArrives
    \/ ReadsFile
    \/ ReadFails
    \/ PacingFires

SpecHosting == Init /\ [][NextHosting]_vars

\* ---------------------------------------------------------- the properties

\* a download set up by a file_metadata message
Announced(f) == sess[f].outcome \in {"active", "completed", "failed"}

\* every index of [0, expectedChunks) was delivered at least once
EveryIndexDelivered(f) == \A i \in 0..(sess[f].expected - 1) : i \in sess[f].delivered

\* the number of non-empty slots of [0, expectedChunks)
FillLevel(download) ==
    Cardinality({i \in 0..(download.expectedChunks - 1) :
                    Truthy(Slot(download.chunks, i))})

\* C1: a download of N >= 1 chunks whose deliveries all carry an index of
\* [0, N) and decodable data is completed if and only if every index of
\* [0, N) was delivered at least once, whatever the order and the number of
\* deliveries of one index.
CompletionIffEveryIndexDelivered ==
    \A f \in FileIds :
        (Announced(f) /\ sess[f].expected >= 1 /\ sess[f].wellFormed)
            => (sess[f].outcome = "completed" <=> EveryIndexDelivered(f))

\* C2: in an active download whose deliveries all carry an index of
\* [0, expectedChunks), receivedChunks is the number of non-empty slots of
\* [0, expectedChunks).
ReceivedChunksIsFillLevel ==
    \A f \in DOMAIN activeDownloads :
        (sess[f].outcome = "active" /\ sess[f].wellFormed)
            => activeDownloads[f].receivedChunks = FillLevel(activeDownloads[f])

\* C3: when the host's send is over and nothing is in flight, a download with
\* an index of [0, expectedChunks) that was never delivered is not completed
\* and the missing indexes were reported as an error.
MissingIndexReported ==
    LET f == RoundTripFile
        missing == (0..(sess[f].expected - 1)) \ sess[f].delivered
    IN  (RoundTripOver /\ Announced(f) /\ missing # {})
            => /\ sess[f].outcome = "failed"
               /\ sess[f].reported.kind = "missing"
               /\ missing \subseteq sess[f].reported.indexes

\* The half of C3 the program keeps: a completed download had every index of
\* [0, expectedChunks) delivered.
CompletedHadEveryIndex ==
    \A f \in FileIds : sess[f].outcome = "completed" => EveryIndexDelivered(f)

\* C4: when the host's send is over, nothing was dropped and nothing is in
\* flight, the download is completed and the stored bytes are the host's.
RoundTripIdentity ==
    LET f == RoundTripFile
    IN  (RoundTripOver /\ NothingDropped)
            => /\ sess[f].outcome = "completed"
               /\ f \in DOMAIN files
               /\ files[f].bytes = hostFiles[f].bytes

\* C4 for the files of at least one byte, which the program does carry over.
RoundTripIdentityNonEmpty ==
    LET f == RoundTripFile
    IN  (RoundTripOver /\ NothingDropped /\ Len(hostFiles[f].bytes) > 0)
            => /\ sess[f].outcome = "completed"
               /\ f \in DOMAIN files
               /\ files[f].bytes = hostFiles[f].bytes

\* the download assembleAndDownloadFile was called with had every slot filled
\* and decodable, and its bytes are not as many as the file_metadata declared
SizeMismatch(f) ==
    /\ sess[f].outcome \in {"completed", "failed"}
    /\ MissingChunks(sess[f].assembled) = {}
    /\ UndecodableChunks(sess[f].assembled) = {}
    /\ Len(AllBytes(sess[f].assembled, 0)) # sess[f].fileSize

\* the download ended Failed: not stored, not announced, its buffer dropped
EndedFailed(f) ==
    /\ sess[f].outcome = "failed"
    /\ ~sess[f].stored
    /\ announced[f] = 0
    /\ f \notin DOMAIN activeDownloads

\* C5: a download assembled to a length other than the declared file_size
\* ends Failed.
SizeMismatchFails == \A f \in FileIds : SizeMismatch(f) => EndedFailed(f)

\* C6: a download assembled with a chunk that atob rejects ends Failed:
\* nothing is stored, no file_downloaded is sent, and the download is gone
\* from activeDownloads.
DecodeFailureFails ==
    \A f \in FileIds :
        (/\ sess[f].outcome \in {"completed", "failed"}
         /\ UndecodableChunks(sess[f].assembled) # {})
            => EndedFailed(f)

\* C6's case: atob threw in assembleAndDownloadFile
DecodeFailureSeen ==
    \E f \in FileIds :
        /\ sess[f].outcome = "failed"
        /\ sess[f].reported.kind = "decode"
        /\ MissingChunks(sess[f].assembled) = {}

\* the file_chunk messages a send has passed to sendMessage
ChunkEntries(send) ==
    {k \in 1..Len(send.log) : send.log[k].message.type = "file_chunk"}

\* bytes [i * C, min((i + 1) * C, S)) of a content of S bytes
BytesOfChunk(bytes, i) ==
    [j \in 1..(Min((i + 1) * chunkSize, Len(bytes)) - i * chunkSize) |->
        bytes[i * chunkSize + j]]

\* C7: a send of S bytes announces ceil(S / C) chunks; the chunk with index i
\* carries bytes [i * C, min((i + 1) * C, S)), so every chunk but the last
\* has C bytes; a send that returned emitted each index of [0, ceil(S / C))
\* once.
ChunksPartitionContent ==
    \A n \in 1..Len(sends) :
        LET send == sends[n]
            S == Len(send.file.bytes)
            N == send.log[1].message.total_chunks
        IN  /\ N * chunkSize >= S
            /\ (N - 1) * chunkSize < S \/ (N = 0 /\ S = 0)
            /\ \A k \in ChunkEntries(send) :
                    LET m == send.log[k].message
                    IN  /\ m.chunk_index \in 0..(N - 1)
                        /\ ~atobThrows(m.data.s)
                        /\ atob(m.data.s) = BytesOfChunk(send.file.bytes, m.chunk_index)
                        /\ m.chunk_index < N - 1 => Len(atob(m.data.s)) = chunkSize
            /\ Cardinality(ChunkEntries(send)) <= N
            /\ send.pc = "done" =>
                    /\ Cardinality(ChunkEntries(send)) = N
                    /\ {send.log[k].message.chunk_index : k \in ChunkEntries(send)}
                            = 0..(N - 1)

\* C7's case: a send of C + 1 bytes returned, its last chunk truncated
TruncatedLastChunkSent ==
    \E n \in 1..Len(sends) :
        /\ sends[n].pc = "done"
        /\ Len(sends[n].file.bytes) = chunkSize + 1
        /\ Cardinality(ChunkEntries(sends[n])) = 2

\* C8: the file_chunk messages of one send are emitted with chunk_index 0, 1,
\* 2, ... in this order, each with the total_chunks of the announcement.
ChunksInIncreasingOrder ==
    \A n \in 1..Len(sends) :
        \A k \in 2..Len(sends[n].log) :
            LET m == sends[n].log[k].message
            IN  /\ m.type = "file_chunk"
                /\ m.chunk_index = k - 2
                /\ m.total_chunks = sends[n].log[1].message.total_chunks

\* C8's case: a send emitted chunk 1 after chunk 0
SecondChunkSent ==
    \E n \in 1..Len(sends) :
        /\ Len(sends[n].log) >= 3
        /\ sends[n].log[3].message.type = "file_chunk"
        /\ sends[n].log[3].message.chunk_index = 1

\* C9: the first message of a send is its file_metadata, with the name, size,
\* kind, chunk count and target of the send; it goes on the connection; no
\* other message of the send is a file_metadata.
OneMetadataBeforeChunks ==
    \A n \in 1..Len(sends) :
        LET send == sends[n] IN
        /\ Len(send.log) >= 1
        /\ send.log[1].wire
        /\ send.log[1].message.type = "file_metadata"
        /\ send.log[1].message.file_id = send.fileId
        /\ send.log[1].message.file_name = send.file.name
        /\ send.log[1].message.file_size = Len(send.file.bytes)
        /\ send.log[1].message.mime_type = send.file.type
        /\ send.log[1].message.total_chunks = send.totalChunks
        /\ send.log[1].message.target_session_id = send.requester
        /\ \A k \in 2..Len(send.log) : send.log[k].message.type # "file_metadata"

\* C9's case: a send emitted chunk 0
FirstChunkSent ==
    \E n \in 1..Len(sends) :
        /\ Len(sends[n].log) >= 2
        /\ sends[n].log[2].message.type = "file_chunk"
        /\ sends[n].log[2].message.chunk_index = 0

\* C10: the last message of a send that returned is an end-of-transfer
\* marker, neither the announcement nor a chunk.
EndMarkerAfterLastChunk ==
    \A n \in 1..Len(sends) :
        sends[n].pc = "done" =>
            sends[n].log[Len(sends[n].log)].message.type
                \notin {"file_metadata", "file_chunk"}

\* C11: a send whose message did not go on the connection, which was not
\* open, emitted nothing after that message and ended reporting a failure,
\* never as sent.
SendAbortsWhenSinkCloses ==
    \A n \in 1..Len(sends) :
        \A k \in 1..Len(sends[n].log) :
            ~sends[n].log[k].wire =>
                /\ k = Len(sends[n].log)
                /\ sends[n].pc = "failed"

\* the download_request names this peer as host for an id not in store
HostRequestForMissingFile(message, store) ==
    /\ message.type = "download_request"
    /\ message.from_session_id = Me
    /\ message.file_id \notin DOMAIN store

\* the step sent no message, showed no error and changed nothing of the
\* transfers
SilentlyDropped ==
    /\ lastError' = NoError
    /\ UNCHANGED <<files, pendingDownloads, activeDownloads, sends, announced,
                   requestSent, uploadSent, joinSent, dirVars>>

\* C12 as stated: every download_request that names this peer as host for an
\* id not in this.files is dropped silently.
MissingFileRequestDropped ==
    [][HostRequestForMissingFile(handled', files) => SilentlyDropped]_vars

\* C12: a download_request that names this peer as host for an id not in
\* this.files, and that is not the answer to a pending request of this peer
\* itself, is dropped silently.
MissingFileRequestOfOthersDropped ==
    [][(/\ HostRequestForMissingFile(handled', files)
        /\ ~(/\ handled'.requester_session_id = Me
              /\ handled'.file_id \in pendingDownloads))
            => SilentlyDropped]_vars

\* C12's case: another peer's request for an id this peer does not have was
\* handled
MissingFileRequestHandled ==
    /\ HostRequestForMissingFile(handled, files)
    /\ handled.requester_session_id = Third
    /\ "file_1" \in DOMAIN files

\* C20: after the peer_left of a peer, no download that is being received
\* from that peer is left in activeDownloads.
HostLeftFailsDownload ==
    handled.type = "peer_left" =>
        \A f \in DOMAIN activeDownloads :
            activeDownloads[f].fromPeer # handled.session_id

\* C14: when the connection is closed no download is left in
\* activeDownloads; downloads are set up by handlers of the open connection
\* only, so one that is there was in flight when the connection closed.
DisconnectFailsDownloads == wsState = "closed" => DOMAIN activeDownloads = {}

\* C19: a download announced with expectedChunks chunks holds no chunk at an
\* index outside [0, expectedChunks).
OutOfRangeChunkRejected ==
    \A f \in DOMAIN activeDownloads :
        sess[f].outcome = "active" =>
            \A i \in DOMAIN activeDownloads[f].chunks :
                i \in 0..(activeDownloads[f].expectedChunks - 1)

\* the ids of a list of records
IdsOf(list) == {list[k].id : k \in 1..Len(list)}

\* the rows of the table that show the file with this id
FileRowsOf(id) == {k \in 1..Len(listed) : listed[k].kind = "file" /\ listed[k].id = id}

\* C15: after a file_list_update this.serverFiles is the list of the message,
\* with nothing of the list it replaces; with one record per id in the
\* message, no id is twice in it; and the table always shows each record of
\* this.serverFiles in one row, and no other file.
CatalogIsResync ==
    /\ handled.type = "file_list_update" =>
            /\ serverFiles = (IF handled.files.arr THEN handled.files.a ELSE <<>>)
            /\ \A i, j \in 1..Len(serverFiles) :
                    serverFiles[i].id = serverFiles[j].id => i = j
    /\ listed # <<>> =>
            \A f \in FileIds :
                Cardinality(FileRowsOf(f)) = IF f \in IdsOf(serverFiles) THEN 1 ELSE 0

\* C15's case: the catalog of a resync after a reconnect lacks a record that
\* was there when the connection closed
StaleRecordGone ==
    /\ atClose.closed
    /\ wsState = "open"
    /\ handled.type = "file_list_update"
    /\ Len(serverFiles) > 0
    /\ \E k \in 1..Len(atClose.files) :
            /\ atClose.files[k].id \notin IdsOf(serverFiles)
            /\ FileRowsOf(atClose.files[k].id) = {}

\* C16: a closed connection leads to a new connection attempt, made by the
\* timer onclose set and not before; a connection that opens has one join
\* sent over it, with the session id of every join before.
ReconnectsAndRejoins ==
    /\ (wsState = "closed") ~> (wsState = "connecting")
    /\ [](wsState = "closed" => reconnectTimer = ReconnectDelay)
    /\ [][wsState = "closed" /\ wsState' # "closed"
            => wsState' = "connecting" /\ reconnectTimer' = 0]_vars
    /\ [](wsState = "open" => joinSent.count = 1 /\ joinSent.id = Me)
    /\ [](wsState # "open" => joinSent.count = 0)
    /\ [][joinSent.id # "" => joinSent'.id = joinSent.id]_vars

\* C16's case: the connection opened, closed and opened again
RejoinedAfterReconnect ==
    /\ atClose.closed
    /\ wsState = "open"
    /\ joinSent.count = 1

\* C18: no record with an empty host set is in this.serverFiles or in a row
\* of the table.
EmptyHostRecordAbsent ==
    /\ \A k \in 1..Len(serverFiles) : Len(serverFiles[k].hosts) > 0
    /\ \A k \in 1..Len(listed) :
            listed[k].kind = "file" => Len(listed[k].hosts) > 0

\* the send serves the content: its announcement carries the size and went
\* on the connection, and each chunk it emitted carries its bytes of content
Serves(send, requester, fileId, content) ==
    /\ send.requester = requester
    /\ send.fileId = fileId
    /\ send.file.bytes = content
    /\ send.log[1].wire
    /\ send.log[1].message.type = "file_metadata"
    /\ send.log[1].message.file_id = fileId
    /\ send.log[1].message.file_size = Len(content)
    /\ send.log[1].message.target_session_id = requester
    /\ \A k \in ChunkEntries(send) :
            LET m == send.log[k].message
            IN  /\ m.file_id = fileId
                /\ m.target_session_id = requester
                /\ atob(m.data.s) = BytesOfChunk(content, m.chunk_index)
    /\ send.pc = "done" => Cardinality(ChunkEntries(send)) = TotalChunks(Len(content))

\* C13: once the download is completed the content is in this.files, one
\* file_downloaded was sent for the id, and a download_request of another
\* peer that names this peer as host is served with that content.
CompletedDownloadIsRehosted ==
    LET f == RoundTripFile IN
    sess[f].outcome = "completed" =>
        /\ f \in DOMAIN files
        /\ files[f].bytes = hostFiles[f].bytes
        /\ announced[f] = 1
        /\ handled.type = "download_request" =>
                \E n \in 1..Len(sends) :
                    Serves(sends[n], handled.requester_session_id, f, hostFiles[f].bytes)
        /\ \A n \in 1..Len(sends) : Serves(sends[n], Third, f, hostFiles[f].bytes)

\* C13's case: the downloaded file of two chunks was sent whole to the third
\* peer
RehostedFileServed ==
    /\ sess[RoundTripFile].outcome = "completed"
    /\ Len(hostFiles[RoundTripFile].bytes) = chunkSize + 1
    /\ \E n \in 1..Len(sends) :
            /\ sends[n].pc = "done"
            /\ sends[n].requester = Third
            /\ \A k \in 1..Len(sends[n].log) : sends[n].log[k].wire

\* the step left the download, the stored file and the history of id g alone
Untouched(g) ==
    /\ (g \in DOMAIN activeDownloads') = (g \in DOMAIN activeDownloads)
    /\ g \in DOMAIN activeDownloads => activeDownloads'[g] = activeDownloads[g]
    /\ (g \in DOMAIN files') = (g \in DOMAIN files)
    /\ g \in DOMAIN files => files'[g] = files[g]
    /\ sess'[g] = sess[g]
    /\ announced'[g] = announced[g]

\* the step put the chunk of message in the buffer of its own download and,
\* if it ended the download, stored the bytes of that buffer or nothing
OwnBufferOnly(message) ==
    LET f == message.file_id IN
    f \in DOMAIN activeDownloads =>
        LET buffer == MapSet(activeDownloads[f].chunks, message.chunk_index,
                             message.data)
        IN  IF f \in DOMAIN activeDownloads'
            THEN activeDownloads'[f].chunks = buffer
            ELSE IF lastError'.kind = "none"
            THEN /\ f \in DOMAIN files'
                 /\ files'[f].bytes =
                        AllBytes([activeDownloads[f] EXCEPT !.chunks = buffer], 0)
            ELSE /\ (f \in DOMAIN files') = (f \in DOMAIN files)
                 /\ f \in DOMAIN files => files'[f] = files[f]

\* C17: a file_metadata or file_chunk of one file id changes nothing of the
\* download of another id, neither its buffer nor its count nor what is
\* stored for it, whether or not the step ends its own download in failure;
\* a chunk goes to the buffer of its own id, and a download that completes
\* stores the bytes of its own buffer.
DownloadsAreIndependent ==
    [][handled'.type \in {"file_metadata", "file_chunk"} =>
            /\ \A g \in FileIds \ {handled'.file_id} : Untouched(g)
            /\ handled'.type = "file_chunk" => OwnBufferOnly(handled')]_vars

\* C17's case: with the download of file_1 failed on a chunk that does not
\* decode, the last chunk of file_2 completed it with its own two chunks
OneFailedOtherCompleted ==
    /\ sess["file_1"].outcome = "failed"
    /\ sess["file_1"].reported.kind = "decode"
    /\ sess["file_2"].outcome = "completed"
    /\ handled.type = "file_chunk"
    /\ handled.file_id = "file_2"
    /\ "file_1" \notin DOMAIN files
    /\ files["file_2"].bytes = <<8, 9, 8, 9>>

\* C21: once an offer from a peer was handled, a negotiator for that peer is
\* in the set of connections, in state AnswerSent.
OfferReachesAnswerSent ==
    handled.type = "offer" =>
        /\ handled.from_session_id \in DOMAIN rtcConnections
        /\ rtcConnections[handled.from_session_id].state = "AnswerSent"

\* C22: a download that completed, with its file stored and file_downloaded
\* sent, is of a file id this peer sent a request_download for.
CompletedWasRequested ==
    \A f \in FileIds :
        sess[f].outcome = "completed" /\ f \in DOMAIN files /\ announced[f] > 0
            => f \in requestSent

\* C23: a file_metadata or file_chunk from one host leaves the buffer of the
\* download that is under way with another host as it is.
SessionsKeepOwnBuffer ==
    [][/\ handled'.type \in {"file_metadata", "file_chunk"}
       /\ handled'.file_id \in DOMAIN activeDownloads
       /\ activeDownloads[handled'.file_id].fromPeer # handled'.from_session_id
       => /\ handled'.file_id \in DOMAIN activeDownloads'
          /\ activeDownloads'[handled'.file_id] = activeDownloads[handled'.file_id]]_vars

\* C24: right after the user cancelled, no download is in the active set.
CancelEndsDownload ==
    handled = CancelClick => DOMAIN activeDownloads = {}

\* C25: a request_download was sent for every file id in the pending set.
PendingWasRequested == pendingDownloads \subseteq requestSent

\* an envelope the client has no use for, given the downloads under way: a
\* message of a type handleServerMessage has no case for, a file_metadata or
\* file_chunk for another peer, a file_chunk for a file id without a
\* download, a file_chunk without data
Unroutable(message, downloads) ==
    \/ message \in SignalIn
    \/ /\ message.type \in {"file_metadata", "file_chunk"}
       /\ message.target_session_id # Me
    \/ /\ message.type = "file_chunk"
       /\ \/ message.file_id \notin DOMAIN downloads
          \/ message.data = Undefined

\* C26: the step that handles such an envelope leaves the catalog, the
\* pending set, the active downloads and the stored files as they were, and
\* the connection open for the next message.
UnroutableDropped ==
    [][Unroutable(handled', activeDownloads) =>
            /\ UNCHANGED <<serverFiles, listed, pendingDownloads, activeDownloads,
                           files, connVars>>
            /\ wsState' = "open"]_vars

\* C26's case: with one chunk of two in the buffer, a file_chunk without data
\* was handled and dropped
ChunkWithoutDataDropped ==
    /\ handled.type = "file_chunk"
    /\ handled.target_session_id = Me
    /\ handled.data = Undefined
    /\ EnvelopeFile \in DOMAIN activeDownloads
    /\ activeDownloads[EnvelopeFile].expectedChunks = 2
    /\ activeDownloads[EnvelopeFile].receivedChunks = 1

\* C27: the step in which the assembly of a download fails leaves its file
\* id in neither the pending set nor the active set.
FailedDownloadEvicted ==
    [][\A f \in FileIds :
            sess[f].outcome # "failed" /\ sess'[f].outcome = "failed"
                => /\ f \notin pendingDownloads'
                   /\ f \notin DOMAIN activeDownloads']_vars

\* the download of f was assembled: it completed or failed
Ended(f) == sess[f].outcome \in {"completed", "failed"}

\* C28: since a download was set up, file_downloaded was sent for it at most
\* once: once if it completed, never if it failed; a download that was
\* assembled is out of activeDownloads, and as long as no new one is set up
\* for its id no step assembles, stores, announces or reports for it again.
AssembledAtMostOnce ==
    /\ [](\A f \in FileIds :
            /\ announced[f] <= 1
            /\ Ended(f) =>
                    /\ f \notin DOMAIN activeDownloads
                    /\ announced[f] = IF sess[f].outcome = "completed" THEN 1 ELSE 0)
    /\ [][\A f \in FileIds :
            Ended(f) /\ sess'[f].outcome = sess[f].outcome =>
                /\ announced'[f] = announced[f]
                /\ sess'[f].assembled = sess[f].assembled
                /\ sess'[f].reported = sess[f].reported
                /\ (f \in DOMAIN files') = (f \in DOMAIN files)
                /\ f \in DOMAIN files => files'[f] = files[f]
                /\ f \notin DOMAIN activeDownloads']_vars

\* C28's case: a download of one chunk completed, and a chunk with another
\* index was handled after it
LateChunkAfterCompletion ==
    /\ sess["file_1"].outcome = "completed"
    /\ sess["file_1"].expected = 1
    /\ Cardinality(sess["file_1"].delivered) >= 2
    /\ announced["file_1"] = 1

\* this peer told the relay it hosts f: by file_upload, or by the
\* file_downloaded of the download of f last set up
AnnouncedAsHost(f) == f \in uploadSent \/ announced[f] > 0

\* C29: every file id this peer announced itself as host of is in this.files,
\* no step removes an entry of this.files, and a download_request that names
\* this peer as the host of an announced id, and is not the answer to a
\* request of its own, starts sending the stored file.
AnnouncedIsStored ==
    /\ [](\A f \in FileIds : AnnouncedAsHost(f) => f \in DOMAIN files)
    /\ [][/\ DOMAIN files \subseteq DOMAIN files'
          /\ LET f == handled'.file_id IN
                  /\ handled'.type = "download_request"
                  /\ handled'.from_session_id = Me
                  /\ AnnouncedAsHost(f)
                  /\ ~(handled'.requester_session_id = Me /\ f \in pendingDownloads)
                  => /\ lastError'.kind = "none"
                     /\ Len(sends') = Len(sends) + 1
                     /\ sends'[Len(sends')].fileId = f
                     /\ sends'[Len(sends')].requester = handled'.requester_session_id
                     /\ sends'[Len(sends')].file = files[f]]_vars

\* C29's case: with file_1 uploaded and announced, file_2 was downloaded and
\* announced, and a request of the third peer for file_2 started its send
DownloadedFileRequested ==
    /\ "file_1" \in uploadSent
    /\ announced["file_2"] = 1
    /\ handled.type = "download_request"
    /\ handled.file_id = "file_2"
    /\ handled.requester_session_id = Third
    /\ \E n \in 1..Len(sends) :
            /\ sends[n].fileId = "file_2"
            /\ sends[n].file = files["file_2"]

====
